---- MODULE Spec2Model ----
(***************************************************************************)
(* Model of src/index.js (instant loopback recorder): the listening /      *)
(* recording / playback state machine, the recorded message list, the      *)
(* setTimeout-driven playback and the export command.                      *)
(*                                                                         *)
(* Every function of index.js that touches the recorder's state is an      *)
(* operator from a state record to a state record, composed the way the    *)
(* JavaScript composes the calls.  The actions dispatch the three kinds of *)
(* stimuli of the Node event loop (MIDI input, key press, timer firing),   *)
(* each running one handler to completion, plus the passage of time.       *)
(* Spec is the recorder with an output port that accepts every message,    *)
(* ThrowSpec the recorder whose port may throw, and EncSpec a capture      *)
(* followed by an export, with the track the encoder builds.               *)
(*                                                                         *)
(* The program reads two clocks.  Date.now() (index.js:240, 254) is the    *)
(* system time; setTimeout (index.js:294, 306) stamps a timer with the     *)
(* event loop's monotonic time, and the loop compares that clock with the  *)
(* timer's due time.  Their millisecond boundaries do not coincide and     *)
(* nothing in the program ties one to the other, so each ticks on its own: *)
(* TickWall is a millisecond of Date.now(), TickLoop one of the timer      *)
(* clock.  Times are kept relative to the present reading of their clock:  *)
(* Date.now() reads Now and the timer clock reads LoopNow at the start of  *)
(* every step; when Date.now() moves on by d, recordingStartTime moves d   *)
(* into the past, and when the timer clock moves on by d every timer's     *)
(* due time comes d nearer.  The differences the program computes          *)
(* (Date.now() - recordingStartTime, a timer's due time - loop time) are   *)
(* the true ones.  Either clock may also move on inside a handler that     *)
(* reads it more than once.                                                *)
(*                                                                         *)
(* recordingStartTime is read only during a capture (index.js:240, 264)    *)
(* and every capture starts by overwriting it (index.js:254).  The model   *)
(* follows its value while the state is recording and the capture is not   *)
(* older than MaxOffset; otherwise, and before the first capture, where    *)
(* the program holds null, it stands at Stale.                             *)
(***************************************************************************)
EXTENDS Integers, Sequences, FiniteSets, TLC

VARIABLES
    state,                   \* index.js:11   'listening' | 'recording' | 'playback'
    recordedMessages,        \* index.js:12   sequence of [type, msg, timestamp]
    recordingStartTime,      \* index.js:15   Date.now() of the capture start, or Stale
    playbackTimeouts,        \* index.js:16   handles of the emission timers
    playbackCompleteTimeout, \* index.js:17   handle of the completion timer, or NoTimeout
    timers,                  \* the event loop's pending timers, in creation order
    sink,                    \* what output.send received in the step just taken
    sendErrors,              \* output.send calls that threw in the step just taken
    fileWrites,              \* files written by the handler that ran last
    cleared,                 \* pending timers removed by clearTimeout in the step just taken
    midi,                    \* index.js:340  tracks of the file written by the export
                             \* that EncSpec follows; Spec only counts the writes
    session,                 \* history: fate of the most recently started replay
    failed,                  \* history: sends that threw in that replay, while uncancelled
    last,                    \* history: the stimulus handled last and the state it met
    running                  \* index.js:535  FALSE once cleanup has called process.exit

vars == <<state, recordedMessages, recordingStartTime, playbackTimeouts,
          playbackCompleteTimeout, timers, sink, sendErrors, fileWrites,
          cleared, midi, session, failed, last, running>>

(***************************************************************************)
(* Bounds of the model.                                                    *)
(***************************************************************************)
MaxLog == 2       \* longest recorded take
MaxOffset == 2    \* largest timestamp appended to a take
MaxDrift == 1     \* most a clock advances between two readings of it in one handler
MaxLate == 1      \* most the event loop runs a timer's callback after it is due
MaxEncLog == 3    \* longest take handed to the encoder on its own
MaxEncOffset == 3 \* largest timestamp in such a take

\* What Date.now() reads at the start of a step (the origin of its axis).
Now == 0

\* What the timer clock reads at the start of a step (the origin of its axis).
LoopNow == 0

\* A capture start that no handler can read any more, or too far back for a
\* message to be appended within MaxOffset.
Stale == Now - (MaxOffset + 1)

(***************************************************************************)
(* Program constants.                                                      *)
(***************************************************************************)
SettleMargin == 100   \* index.js:312  totalDuration + 100
SustainController == 64   \* index.js:215, 229
NoTimeout == -1       \* index.js:17   playbackCompleteTimeout = null
DefaultChannel == 0   \* index.js:357, 404  recorded.msg.channel || 0
DefaultVelocity == 100   \* index.js:358  recorded.msg.velocity || 100
MinDuration == 1      \* index.js:362, 386, 412  Math.max(0.001, ...), in milliseconds
MinTimeout == 1       \* index.js:301  setTimeout runs a delay below 1 ms as 1 ms

\* index.js:185-200: the sixteen message types the input handler subscribes to.
EventTypes ==
    {"noteon", "noteoff", "cc", "program", "channel aftertouch", "poly aftertouch",
     "pitch", "position", "mtc", "select", "clock", "start", "continue", "stop",
     "activesense", "reset"}

\* The messages the Event Source delivers while timers run: the two
\* capture triggers and a message that is none.
Inputs ==
    { [type |-> "noteon",  msg |-> [channel |-> 0, note |-> 60, velocity |-> 100]],
      [type |-> "cc",      msg |-> [channel |-> 0, controller |-> 64, value |-> 127]],
      [type |-> "cc",      msg |-> [channel |-> 0, controller |-> 1, value |-> 5]] }

(***************************************************************************)
(* The recorder's state as one record, so that the functions of index.js   *)
(* compose as they do in the source.  The handler about to run has sent    *)
(* nothing to the output and written no file yet.                          *)
(***************************************************************************)
Cur ==
    [state |-> state,
     recordedMessages |-> recordedMessages,
     recordingStartTime |-> recordingStartTime,
     playbackTimeouts |-> playbackTimeouts,
     playbackCompleteTimeout |-> playbackCompleteTimeout,
     timers |-> timers,
     sink |-> <<>>,
     sendErrors |-> 0,
     fileWrites |-> 0,
     cleared |-> 0]

\* type === 'noteon' || (type === 'cc' && msg.controller === 64)
IsTrigger(type, msg) ==
    \/ type = "noteon"
    \/ /\ type = "cc"
       /\ "controller" \in DOMAIN msg
       /\ msg.controller = SustainController

(***************************************************************************)
(* Timers.  A pending timer is [id, cb, due, ...]: due is the loop time at  *)
(* which it expires, the loop time of its setTimeout call plus the delay   *)
(* asked for.  Handles are the ids; a fresh handle is the least number no  *)
(* pending timer and no kept handle uses.                                  *)
(***************************************************************************)
Range(f) == {f[i] : i \in DOMAIN f}

Max(a, b) == IF a >= b THEN a ELSE b

\* The earliest loop time at which the callback of setTimeout(fn, delay),
\* called at loop time t, may run: Node runs a timer whose delay is below
\* 1 ms as a 1 ms timer.
Due(t, delay) == t + Max(delay, MinTimeout)

UsedHandles(s) ==
    {t.id : t \in Range(s.timers)} \cup Range(s.playbackTimeouts)
        \cup {s.playbackCompleteTimeout}

FreshHandle(s) ==
    LET used == UsedHandles(s)
    IN CHOOSE h \in 0..(Cardinality(used) + 1) :
          /\ h \notin used
          /\ \A k \in 0..(h - 1) : k \in used

\* clearTimeout(h): the timer with that handle, if still pending, is removed.
clearTimeout(T, h) == SelectSeq(T, LAMBDA t : t.id # h)

RECURSIVE clearAll(_, _)
\* playbackTimeouts.forEach(timeout => clearTimeout(timeout))
clearAll(T, hs) ==
    IF hs = <<>> THEN T ELSE clearAll(clearTimeout(T, Head(hs)), Tail(hs))


(***************************************************************************)
(* Capture: handleMIDIMessage, recordMessage, startRecording,              *)
(* stopRecording.  A parameter t, t1, t2 is the value Date.now() returns   *)
(* at that call.                                                           *)
(***************************************************************************)
\* index.js:239-246
recordMessage(s, type, msg, t) ==
    [s EXCEPT !.recordedMessages =
        Append(@, [type |-> type, msg |-> msg,
                   timestamp |-> t - s.recordingStartTime])]

\* index.js:249-257
startRecording(s, t) ==
    IF s.state = "recording" THEN s
    ELSE [s EXCEPT !.recordedMessages = <<>>,
                   !.recordingStartTime = t,
                   !.state = "recording"]

\* Variant of handleMIDIMessage: every controller starts a capture, not
\* only controller 64.
handleMIDIMessage_anycc(s, type, msg, t1, t2) ==
    IF s.state = "listening" THEN
        IF type = "noteon" THEN
            recordMessage(startRecording(s, t1), type, msg, t2)
        ELSE IF type = "cc" THEN
            recordMessage(startRecording(s, t1), type, msg, t2)
        ELSE s
    ELSE IF s.state = "recording" THEN
        recordMessage(s, type, msg, t2)
    ELSE IF s.state = "playback" THEN
        IF type = "noteon" THEN
            recordMessage(startRecording(s, t1), type, msg, t2)
        ELSE IF type = "cc" THEN
            recordMessage(startRecording(s, t1), type, msg, t2)
        ELSE s
    ELSE s

\* Variant of handleMIDIMessage: while recording only note and controller
\* messages are recorded.
handleMIDIMessage_notesonly(s, type, msg, t1, t2) ==
    IF s.state = "listening" THEN
        IF type = "noteon" THEN
            recordMessage(startRecording(s, t1), type, msg, t2)
        ELSE IF type = "cc" /\ "controller" \in DOMAIN msg
                            /\ msg.controller = SustainController THEN
            recordMessage(startRecording(s, t1), type, msg, t2)
        ELSE s
    ELSE IF s.state = "recording" THEN
        IF type \in {"noteon", "noteoff", "cc"}
        THEN recordMessage(s, type, msg, t2)
        ELSE s
    ELSE IF s.state = "playback" THEN
        IF type = "noteon" THEN
            recordMessage(startRecording(s, t1), type, msg, t2)
        ELSE IF type = "cc" /\ "controller" \in DOMAIN msg
                            /\ msg.controller = SustainController THEN
            recordMessage(startRecording(s, t1), type, msg, t2)
        ELSE s
    ELSE s

\* index.js:209-236.  t1 is the clock read by startRecording, t2 the clock
\* read afterwards by recordMessage.
handleMIDIMessage(s, type, msg, t1, t2) ==
    IF s.state = "listening" THEN
        IF type = "noteon" THEN
            recordMessage(startRecording(s, t1), type, msg, t2)
        ELSE IF type = "cc" /\ "controller" \in DOMAIN msg
                            /\ msg.controller = SustainController THEN
            recordMessage(startRecording(s, t1), type, msg, t2)
        ELSE s
    ELSE IF s.state = "recording" THEN
        recordMessage(s, type, msg, t2)
    ELSE IF s.state = "playback" THEN
        IF type = "noteon" THEN
            recordMessage(startRecording(s, t1), type, msg, t2)
        ELSE IF type = "cc" /\ "controller" \in DOMAIN msg
                            /\ msg.controller = SustainController THEN
            recordMessage(startRecording(s, t1), type, msg, t2)
        ELSE s
    ELSE s

\* Variant of stopRecording: the take is dropped when the capture stops.
stopRecording_drops(s) ==
    IF s.state # "recording" THEN s
    ELSE [s EXCEPT !.state = "listening", !.recordedMessages = <<>>]

\* index.js:260-267
stopRecording(s) ==
    IF s.state # "recording" THEN s
    ELSE [s EXCEPT !.state = "listening"]

(***************************************************************************)
(* Replay: playBack, its two timer callbacks, stopPlayback.                *)
(***************************************************************************)
\* Variant of scheduleEmission: every emission is scheduled immediately.
scheduleEmission_nodelay(s, index, t) ==
    LET h == FreshHandle(s)
        recorded == s.recordedMessages[index]
    IN [s EXCEPT !.timers = Append(@, [id |-> h, cb |-> "emit",
                                       due |-> Due(t, 0),
                                       index |-> index, recorded |-> recorded]),
                 !.playbackTimeouts = Append(@, h)]

\* index.js:294-301: setTimeout(() => output.send(...), recorded.timestamp)
\* and playbackTimeouts.push(timeout), for the message at `index`.
scheduleEmission(s, index, t) ==
    LET h == FreshHandle(s)
        recorded == s.recordedMessages[index]
    IN [s EXCEPT !.timers = Append(@, [id |-> h, cb |-> "emit",
                                       due |-> Due(t, recorded.timestamp),
                                       index |-> index, recorded |-> recorded]),
                 !.playbackTimeouts = Append(@, h)]

\* The loop time the k-th setTimeout call of one playBack reads: every
\* call reads the clock anew, and J holds the calls before which the clock
\* has moved on by a millisecond.
ClockAt(t, J, k) == t + Cardinality({j \in J : j <= k})

RECURSIVE scheduleFrom(_, _, _, _)
\* index.js:293-302: recordedMessages.forEach((recorded, index) => ...)
scheduleFrom(s, index, t, J) ==
    IF index > Len(s.recordedMessages) THEN s
    ELSE scheduleFrom(scheduleEmission(s, index, ClockAt(t, J, index)),
                      index + 1, t, J)

\* Variant of scheduleComplete: the settle margin is left out.
scheduleComplete_nomargin(s, t) ==
    LET totalDuration == s.recordedMessages[Len(s.recordedMessages)].timestamp
        h == FreshHandle(s)
    IN [s EXCEPT !.timers = Append(@, [id |-> h, cb |-> "complete",
                                       due |-> Due(t, totalDuration)]),
                 !.playbackCompleteTimeout = h]

\* index.js:305-312: the completion timer.
scheduleComplete(s, t) ==
    LET totalDuration == s.recordedMessages[Len(s.recordedMessages)].timestamp
        h == FreshHandle(s)
    IN [s EXCEPT !.timers = Append(@, [id |-> h, cb |-> "complete",
                                       due |-> Due(t, totalDuration + SettleMargin)]),
                 !.playbackCompleteTimeout = h]

\* Variant of clearPlaybackTimers: the completion timer's handle is dropped
\* without clearTimeout.
clearPlaybackTimers_forgets(s) ==
    [s EXCEPT !.timers = clearAll(@, s.playbackTimeouts),
              !.playbackTimeouts = <<>>,
              !.playbackCompleteTimeout = NoTimeout,
              !.cleared = @ + Len(s.timers) - Len(clearAll(s.timers, s.playbackTimeouts))]

\* index.js:285-290 and 320-325: clear every tracked timer.
clearPlaybackTimers(s) ==
    LET s1 == [s EXCEPT !.timers = clearAll(@, s.playbackTimeouts),
                        !.playbackTimeouts = <<>>]
        s2 == IF s1.playbackCompleteTimeout # NoTimeout
              THEN [s1 EXCEPT !.timers = clearTimeout(@, s1.playbackCompleteTimeout),
                              !.playbackCompleteTimeout = NoTimeout]
              ELSE s1
    IN [s2 EXCEPT !.cleared = @ + Len(s.timers) - Len(s2.timers)]

\* Variant of playBack: a play command is rejected during a capture.
playBack_idleonly(s, t, J) ==
    IF s.state # "listening" THEN s
    ELSE IF Len(s.recordedMessages) = 0 THEN s
    ELSE LET s1 == [s EXCEPT !.state = "playback"]
             s2 == clearPlaybackTimers(s1)
             s3 == scheduleFrom(s2, 1, t, J)
         IN scheduleComplete(s3, ClockAt(t, J, Len(s.recordedMessages) + 1))

\* Variant of playBack: no completion timer is scheduled.
playBack_nocomplete(s, t, J) ==
    IF s.state = "playback" THEN s
    ELSE IF Len(s.recordedMessages) = 0 THEN s
    ELSE LET s1 == [s EXCEPT !.state = "playback"]
             s2 == clearPlaybackTimers(s1)
         IN scheduleFrom(s2, 1, t, J)

\* Variant of playBack: the "already playing back" check is left out.
playBack_restarts(s, t, J) ==
    IF Len(s.recordedMessages) = 0 THEN s
    ELSE LET s1 == [s EXCEPT !.state = "playback"]
             s2 == clearPlaybackTimers(s1)
             s3 == scheduleFrom(s2, 1, t, J)
         IN scheduleComplete(s3, ClockAt(t, J, Len(s.recordedMessages) + 1))

\* index.js:270-313.  t is the loop time at the first setTimeout call; the
\* later calls read ClockAt(t, J, k).
playBack(s, t, J) ==
    IF s.state = "playback" THEN s
    ELSE IF Len(s.recordedMessages) = 0 THEN s
    ELSE LET s1 == [s EXCEPT !.state = "playback"]
             s2 == clearPlaybackTimers(s1)
             s3 == scheduleFrom(s2, 1, t, J)
         IN scheduleComplete(s3, ClockAt(t, J, Len(s.recordedMessages) + 1))

\* Variant of emitCallback: an error thrown by the sink is not caught, and
\* the uncaught exception ends the process with everything still pending.
emitCallback_uncaught(s, tm, accepts) ==
    IF accepts
    THEN [s EXCEPT !.sink = Append(@, [type |-> tm.recorded.type,
                                       msg |-> tm.recorded.msg])]
    ELSE [s EXCEPT !.timers = <<>>, !.sendErrors = @ + 1]

\* index.js:294-300: an emission timer's callback.  output.send either
\* accepts the message or throws; the catch block only logs the error.
emitCallback(s, tm, accepts) ==
    IF accepts
    THEN [s EXCEPT !.sink = Append(@, [type |-> tm.recorded.type,
                                       msg |-> tm.recorded.msg])]
    ELSE [s EXCEPT !.sendErrors = @ + 1]

\* Variant of completeCallback: the take is discarded once replayed.
completeCallback_clears(s) ==
    [s EXCEPT !.state = "listening",
              !.recordedMessages = <<>>,
              !.playbackTimeouts = <<>>,
              !.playbackCompleteTimeout = NoTimeout]

\* index.js:306-312: the completion timer's callback.
completeCallback(s) ==
    [s EXCEPT !.state = "listening",
              !.playbackTimeouts = <<>>,
              !.playbackCompleteTimeout = NoTimeout]

\* Variant of stopPlayback: the completion timer is left pending.
stopPlayback_leaves(s) ==
    IF s.state # "playback" THEN s
    ELSE [s EXCEPT !.timers = clearAll(@, s.playbackTimeouts),
                   !.playbackTimeouts = <<>>,
                   !.state = "listening",
                   !.cleared = @ + Len(s.timers) - Len(clearAll(s.timers, s.playbackTimeouts))]

\* index.js:316-330
stopPlayback(s) ==
    IF s.state # "playback" THEN s
    ELSE [clearPlaybackTimers(s) EXCEPT !.state = "listening"]

(***************************************************************************)
(* The encoder inside exportMIDI (index.js:340-421).  Times are kept in    *)
(* milliseconds: the source's time, startTime and duration are these       *)
(* numbers divided by 1000.  A track is [notes, ccs], the arguments of the *)
(* addNote and addCC calls in call order; activeNotes is the Map's entries *)
(* in insertion order.                                                     *)
(***************************************************************************)
\* recorded.msg.<field> || dflt: an absent field and the number 0 are falsy.
orDefault(msg, field, dflt) ==
    IF field \in DOMAIN msg /\ msg[field] # 0 THEN msg[field] ELSE dflt

\* activeNotes.has(noteNum)
hasNote(activeNotes, noteNum) == \E i \in DOMAIN activeNotes : activeNotes[i].note = noteNum

\* activeNotes.get(noteNum)
getNote(activeNotes, noteNum) ==
    activeNotes[CHOOSE i \in DOMAIN activeNotes : activeNotes[i].note = noteNum]

\* activeNotes.delete(noteNum)
deleteNote(activeNotes, noteNum) == SelectSeq(activeNotes, LAMBDA a : a.note # noteNum)

\* index.js:362-371, 386-394, 412-420: track.addNote({...})
addNote(e, noteNum, noteInfo, endTime, channel) ==
    [e EXCEPT !.notes = Append(@, [midi |-> noteNum,
                                   time |-> noteInfo.startTime,
                                   duration |-> IF endTime - noteInfo.startTime >= MinDuration
                                                THEN endTime - noteInfo.startTime
                                                ELSE MinDuration,
                                   velocity |-> noteInfo.velocity,
                                   channel |-> channel])]

\* index.js:351-407: the body of recordedMessages.forEach, for one message.
encodeMessage(e, recorded, startTime) ==
    LET time == recorded.timestamp - startTime
        msg == recorded.msg
    IN IF recorded.type = "noteon" /\ "velocity" \in DOMAIN msg /\ msg.velocity > 0 THEN
           LET noteNum == msg.note
               channel == orDefault(msg, "channel", DefaultChannel)
               velocity == orDefault(msg, "velocity", DefaultVelocity)
               e1 == IF hasNote(e.activeNotes, noteNum)
                     THEN [addNote(e, noteNum, getNote(e.activeNotes, noteNum), time, channel)
                              EXCEPT !.activeNotes = deleteNote(@, noteNum)]
                     ELSE e
           IN [e1 EXCEPT !.activeNotes =
                   Append(@, [note |-> noteNum, startTime |-> time,
                              velocity |-> velocity, channel |-> channel])]
       ELSE IF \/ recorded.type = "noteoff"
               \/ /\ recorded.type = "noteon"
                  /\ "velocity" \in DOMAIN msg
                  /\ msg.velocity = 0 THEN
           LET noteNum == msg.note
           IN IF hasNote(e.activeNotes, noteNum)
              THEN LET noteInfo == getNote(e.activeNotes, noteNum)
                   IN [addNote(e, noteNum, noteInfo, time, noteInfo.channel)
                          EXCEPT !.activeNotes = deleteNote(@, noteNum)]
              ELSE e
       ELSE IF recorded.type = "cc" THEN
           [e EXCEPT !.ccs = Append(@, [number |-> msg.controller,
                                        value |-> msg.value,
                                        time |-> time,
                                        channel |-> orDefault(msg, "channel", DefaultChannel)])]
       ELSE e

RECURSIVE encodeFrom(_, _, _)
\* index.js:351: recordedMessages.forEach((recorded) => ...), from index on.
encodeFrom(e, log, index) ==
    IF index > Len(log) THEN e
    ELSE encodeFrom(encodeMessage(e, log[index], log[1].timestamp), log, index + 1)

\* Variant of closeRemaining: the notes still active are not closed.
closeRemaining_none(e, endTime) == e

RECURSIVE closeRemaining(_, _)
\* index.js:410-421: activeNotes.forEach((noteInfo, noteNum) => addNote).
\* The Map itself is dropped with the function's frame.
closeRemaining(e, endTime) ==
    IF e.activeNotes = <<>> THEN e
    ELSE LET noteInfo == Head(e.activeNotes)
         IN closeRemaining(
                [addNote(e, noteInfo.note, noteInfo, endTime, noteInfo.channel)
                    EXCEPT !.activeNotes = Tail(@)],
                endTime)

\* index.js:340-421: the track built from a non-empty log.
encode(log) ==
    LET startTime == log[1].timestamp
        totalDuration == log[Len(log)].timestamp - startTime
        e == encodeFrom([activeNotes |-> <<>>, notes |-> <<>>, ccs |-> <<>>], log, 1)
        closed == closeRemaining(e, totalDuration)
    IN [notes |-> closed.notes, ccs |-> closed.ccs]

(***************************************************************************)
(* Export and the key dispatch.                                            *)
(***************************************************************************)
\* Variant of exportMIDI: the empty-log check is left out.
exportMIDI_always(s, written) ==
    IF written THEN [s EXCEPT !.fileWrites = @ + 1] ELSE s

\* index.js:333-437: an empty log returns before anything is written;
\* otherwise the track is encoded and written with one writeFileSync, all
\* inside a try whose catch only logs the error: `written` tells whether
\* the encoding and the write went through or one of them threw, in which
\* case there is no file.
exportMIDI(s, written) ==
    IF Len(s.recordedMessages) = 0 THEN s
    ELSE IF written THEN [s EXCEPT !.fileWrites = @ + 1]
    ELSE s

\* index.js:462-469: 's'
keyStop(s) ==
    IF s.state = "recording" THEN stopRecording(s)
    ELSE IF s.state = "playback" THEN stopPlayback(s)
    ELSE s

\* index.js:472-475: 'p'
keyPlay(s, t, J) == playBack(s, t, J)

\* index.js:478-481: 'e'
keyExport(s, written) == exportMIDI(s, written)

(***************************************************************************)
(* The event loop's timer phase: of the pending timers whose due time has  *)
(* come, the one due first runs first, the earliest created first among    *)
(* equals.                                                                 *)
(***************************************************************************)
IsNextTimer(T, i, clock) ==
    /\ i \in DOMAIN T
    /\ T[i].due <= clock
    /\ \A j \in DOMAIN T :
          \/ T[j].due > T[i].due
          \/ T[j].due = T[i].due /\ j >= i

RemoveAt(T, i) == SubSeq(T, 1, i - 1) \o SubSeq(T, i + 1, Len(T))

\* The timer at position i fires: it leaves the loop and its callback runs.
\* `accepts` tells whether the sink takes the message of an emission.
fireTimer(s, i, accepts) ==
    LET tm == s.timers[i]
        s1 == [s EXCEPT !.timers = RemoveAt(@, i)]
    IN IF tm.cb = "emit" THEN emitCallback(s1, tm, accepts)
       ELSE completeCallback(s1)


(***************************************************************************)
(* The passage of time.                                                    *)
(***************************************************************************)
\* Date.now() moves on by d milliseconds.  A capture start further back
\* than MaxOffset is kept as Stale: no message is appended past MaxOffset.
WallElapse(s, d) ==
    [s EXCEPT !.recordingStartTime = Max(@ - d, Stale)]

\* The timer clock moves on by d milliseconds.
LoopElapse(s, d) ==
    [s EXCEPT !.timers = [i \in DOMAIN @ |-> [@[i] EXCEPT !.due = @ - d]]]

\* The timer clock moves on whatever is pending; a callback runs at or
\* after its due time, the loop being at most MaxLate behind.
CanElapse(T, d) == \A t \in Range(T) : (LoopNow + d) - t.due <= MaxLate

(***************************************************************************)
(* The state machine.                                                      *)
(***************************************************************************)
NoInput == [type |-> "", msg |-> <<>>]

Stimulus(op, inp) == [op |-> op, pre |-> state, type |-> inp.type, msg |-> inp.msg]

Init ==
    /\ state = "listening"
    /\ recordedMessages = <<>>
    /\ recordingStartTime = Stale
    /\ playbackTimeouts = <<>>
    /\ playbackCompleteTimeout = NoTimeout
    /\ timers = <<>>
    /\ sink = <<>>
    /\ sendErrors = 0
    /\ fileWrites = 0
    /\ cleared = 0
    /\ midi = <<>>
    /\ session = "none"
    /\ failed = 0
    /\ last = [op |-> "init", pre |-> "listening", type |-> "", msg |-> <<>>]
    /\ running = TRUE

\* The variables take the values of the record s; the capture start is
\* followed only while a capture is running, the only time it is read.
Assigns(s) ==
    /\ state' = s.state
    /\ recordedMessages' = s.recordedMessages
    /\ recordingStartTime' = IF s.state = "recording" THEN s.recordingStartTime
                              ELSE Stale
    /\ playbackTimeouts' = s.playbackTimeouts
    /\ playbackCompleteTimeout' = s.playbackCompleteTimeout
    /\ timers' = s.timers
    /\ sink' = s.sink
    /\ sendErrors' = s.sendErrors
    /\ fileWrites' = s.fileWrites
    /\ cleared' = s.cleared
    /\ midi' = midi

\* The handler's result becomes the recorder's state; handlers and callbacks
\* run only while the process does.
Becomes(s) ==
    /\ running
    /\ running' = running
    /\ Assigns(s)

\* The Event Source delivers one message (index.js:185-200).  When the
\* handler reads Date.now() twice (startRecording, then recordMessage) the
\* second reading may be up to MaxDrift later than the first; the timers,
\* stamped by the other clock, are as old as they were.
MidiIn ==
    \E inp \in Inputs, d \in 0..MaxDrift :
        /\ d = 0 \/ (state # "recording" /\ IsTrigger(inp.type, inp.msg))
        /\ state = "recording" =>
              /\ Len(recordedMessages) < MaxLog
              /\ Now - recordingStartTime <= MaxOffset
        /\ LET s == handleMIDIMessage(Cur, inp.type, inp.msg, Now, Now + d)
           IN /\ Becomes(WallElapse(s, d))
              /\ session' = IF state = "playback" /\ s.state # "playback"
                            THEN "preempted" ELSE session
              /\ failed' = IF state = "playback" /\ s.state # "playback"
                           THEN 0 ELSE failed
        /\ last' = Stimulus("midi", inp)

\* The Command Source delivers 's' (index.js:462).
KeyS ==
    /\ Becomes(keyStop(Cur))
    /\ session' = IF state = "playback" THEN "stopped" ELSE session
    /\ failed' = IF state = "playback" THEN 0 ELSE failed
    /\ last' = Stimulus("s", NoInput)

\* A play command starts a replay.
Starts == state # "playback" /\ Len(recordedMessages) > 0

\* The setTimeout calls of a playBack before which the timer clock may move
\* on: any but the first, at most MaxDrift of them.
DriftPoints ==
    IF Starts
    THEN {J \in SUBSET (2..(Len(recordedMessages) + 1)) : Cardinality(J) <= MaxDrift}
    ELSE {{}}

\* The Command Source delivers 'p' (index.js:472).
KeyP ==
    /\ \E J \in DriftPoints :
          Becomes(LoopElapse(keyPlay(Cur, LoopNow, J), Cardinality(J)))
    /\ session' = IF Starts THEN "live" ELSE session
    /\ failed' = IF Starts THEN 0 ELSE failed
    /\ last' = Stimulus("p", NoInput)

\* The Command Source delivers 'e' (index.js:478).
KeyE ==
    /\ \E written \in BOOLEAN : Becomes(keyExport(Cur, written))
    /\ last' = Stimulus("e", NoInput)
    /\ UNCHANGED <<session, failed>>

\* The event loop runs the callback of the timer that is due first.
FireTimer ==
    \E i \in DOMAIN timers :
        /\ IsNextTimer(timers, i, LoopNow)
        /\ Becomes(fireTimer(Cur, i, TRUE))
        /\ session' = IF timers[i].cb = "complete" /\ session = "live"
                      THEN "completed" ELSE session
        /\ UNCHANGED failed
        /\ last' = Stimulus(timers[i].cb, NoInput)

\* Date.now() moves on by a millisecond, in any state; no code runs.
TickWall ==
    /\ Becomes(WallElapse(Cur, 1))
    /\ last' = Stimulus("time", NoInput)
    /\ UNCHANGED <<session, failed>>

\* The timer clock moves on by a millisecond, in any state and whatever is
\* pending; no code runs.
TickLoop ==
    /\ CanElapse(timers, 1)
    /\ Becomes(LoopElapse(Cur, 1))
    /\ last' = Stimulus("time", NoInput)
    /\ UNCHANGED <<session, failed>>

\* index.js:518-536: cleanup, reached by Ctrl+C and Ctrl+D (index.js:449-459)
\* and by SIGINT and SIGTERM (index.js:556-557).  It closes the ports and
\* calls process.exit(0): no handler and no timer callback runs afterwards,
\* whatever is pending; the recorder's variables are as they were.
cleanup(s) == s

Cleanup ==
    /\ running
    /\ Assigns(cleanup(Cur))
    /\ running' = FALSE
    /\ last' = Stimulus("exit", NoInput)
    /\ UNCHANGED <<session, failed>>

Next ==
    \/ MidiIn
    \/ KeyS
    \/ KeyP
    \/ KeyE
    \/ FireTimer
    \/ TickWall
    \/ TickLoop
    \/ Cleanup

Spec == Init /\ [][Next]_vars

\* Timers that are due fire and the timer clock does not stop: the event
\* loop is never blocked, every handler running to completion.
FairSpec == Spec /\ WF_vars(FireTimer) /\ WF_vars(TickLoop)

(***************************************************************************)
(* The recorder with a sink that may fail.  Spec is the recorder whose     *)
(* output port accepts every message; here output.send may throw on any    *)
(* emission (a closed port, or no port at all: index.js:174 returns with   *)
(* output still null).                                                     *)
(***************************************************************************)
\* The emission timer that is due first fires and output.send throws.
SinkThrows ==
    \E i \in DOMAIN timers :
        /\ IsNextTimer(timers, i, LoopNow)
        /\ timers[i].cb = "emit"
        /\ Becomes(fireTimer(Cur, i, FALSE))
        /\ last' = Stimulus("throw", NoInput)
        /\ UNCHANGED session
        /\ failed' = IF session = "live" THEN failed + 1 ELSE failed

NextThrows == Next \/ SinkThrows

ThrowSpec == Init /\ [][NextThrows]_vars

\* As FairSpec: a due timer's callback runs, whatever the sink then does.
FairThrowSpec == ThrowSpec /\ WF_vars(FireTimer) /\ WF_vars(TickLoop)


(***************************************************************************)
(* The encoder on its own: a capture of up to MaxEncLog messages, built by *)
(* the capture handlers, and one export of it with the track of the        *)
(* written file kept in `midi`.  The payloads include ones that omit       *)
(* velocity or channel.  No replay takes place, so no timer is pending.    *)
(***************************************************************************)
EncInputs ==
    Inputs \cup
    { [type |-> "noteoff", msg |-> [channel |-> 0, note |-> 60, velocity |-> 0]],
      [type |-> "clock",  msg |-> <<>>],
      [type |-> "noteon", msg |-> [channel |-> 1, note |-> 60, velocity |-> 90]],
      [type |-> "noteon", msg |-> [channel |-> 0, note |-> 60, velocity |-> 0]],
      [type |-> "noteon", msg |-> [channel |-> 0, note |-> 62]],
      [type |-> "noteon", msg |-> [note |-> 64, velocity |-> 80]],
      [type |-> "cc",     msg |-> [controller |-> 64, value |-> 0]] }

\* The Event Source delivers one message, `gap` milliseconds after the
\* previous step; a trigger's two clock readings are d apart (as in MidiIn).
EncDeliver ==
    \E inp \in EncInputs, gap \in 0..MaxEncOffset, d \in 0..MaxDrift :
        /\ midi = <<>>
        /\ state = "listening" => gap = 0 /\ IsTrigger(inp.type, inp.msg)
        /\ state = "recording" =>
              /\ d = 0
              /\ Len(recordedMessages) < MaxEncLog
              /\ (Now + gap) - recordingStartTime <= MaxEncOffset
        /\ LET s == handleMIDIMessage(Cur, inp.type, inp.msg, Now + gap, Now + gap + d)
           IN Becomes([s EXCEPT !.recordingStartTime = @ - (gap + d)])
        /\ last' = Stimulus("midi", inp)
        /\ UNCHANGED <<session, failed>>

\* The Command Source delivers 'e' (index.js:478); when the file is written
\* its track is kept.
ExportTrack ==
    \E written \in BOOLEAN :
        /\ Len(recordedMessages) > 0
        /\ midi = <<>>
        /\ fileWrites' = keyExport(Cur, written).fileWrites
        /\ midi' = IF written THEN <<encode(recordedMessages)>> ELSE midi
        /\ last' = Stimulus("e", NoInput)
        /\ running
        /\ UNCHANGED <<state, recordedMessages, recordingStartTime, playbackTimeouts,
                       playbackCompleteTimeout, timers, sink, sendErrors, cleared,
                       session, failed, running>>

EncNext == EncDeliver \/ ExportTrack \/ Cleanup

EncSpec == Init /\ [][EncNext]_vars


(***************************************************************************)
(* Properties.                                                             *)
(***************************************************************************)
Events(log) == [i \in DOMAIN log |-> [type |-> log[i].type, msg |-> log[i].msg]]

PendingEmits == {t \in Range(timers) : t.cb = "emit"}
PendingCompletes == {t \in Range(timers) : t.cb = "complete"}

\* The stimulus handled last was a capture trigger met in Idle or Replaying.
CaptureStarted ==
    /\ last.op = "midi"
    /\ IsTrigger(last.type, last.msg)
    /\ last.pre \in {"listening", "playback"}

\* C1: once a NoteOn or a ControlChange 64 has been handled in Replaying,
\* no emission of the preempted replay session is delivered to the sink.
C1_NoEmissionAfterPreemption ==
    ~(last.op = "emit" /\ session = "preempted")

\* C2: the completion callback changes the state only if it finds the state
\* Replaying; a Capturing (or Idle) state it finds is left as it is.
C2_CompletionOnlyFromReplaying ==
    (last.op = "complete" /\ last.pre # "playback") => state = last.pre

\* C3: after a capture trigger handled in Idle or Replaying the state is
\* Capturing and the log is exactly that event at offset 0.
C3_TriggerAtOffsetZero ==
    CaptureStarted =>
        /\ state = "recording"
        /\ recordedMessages =
              <<[type |-> last.type, msg |-> last.msg, timestamp |-> 0]>>

\* A step leaves the log alone or appends the message delivered in that step.
LogGrowsByDelivery ==
    \/ recordedMessages' = recordedMessages
    \/ /\ last'.op = "midi"
       /\ Len(recordedMessages') = Len(recordedMessages) + 1
       /\ SubSeq(recordedMessages', 1, Len(recordedMessages)) = recordedMessages
       /\ Events(recordedMessages')[Len(recordedMessages')]
              = [type |-> last'.type, msg |-> last'.msg]

\* A capture start leaves exactly the triggering message in the log.
LogRestartsAtTrigger ==
    /\ Events(recordedMessages') = <<[type |-> last'.type, msg |-> last'.msg]>>
    /\ state' = "recording"

\* The capture triggers among the messages the handlers are applied to: a
\* NoteOn of either velocity and a ControlChange 64.
Triggers == {inp \in EncInputs : IsTrigger(inp.type, inp.msg)}

\* The part of C3 the code keeps: after a capture trigger handled in Idle
\* or Replaying the state is Capturing and the log is exactly that event,
\* at the offset Date.now() advanced between the capture-start reading and
\* the append reading, whichever trigger it is; every other step leaves
\* the log alone or appends the message just delivered, so the log never
\* holds a message of a superseded take.
OverwriteKept ==
    /\ [](CaptureStarted =>
            /\ state = "recording"
            /\ recordedMessages =
                  <<[type |-> last.type, msg |-> last.msg,
                     timestamp |-> Now - recordingStartTime]>>
            /\ recordedMessages[1].timestamp >= 0)
    /\ [](state \in {"listening", "playback"} =>
            \A inp \in Triggers, d \in 0..MaxDrift :
                LET s == handleMIDIMessage(Cur, inp.type, inp.msg, Now, Now + d)
                IN /\ s.state = "recording"
                   /\ s.recordedMessages =
                         <<[type |-> inp.type, msg |-> inp.msg, timestamp |-> d]>>)
    /\ [][IF last'.op = "midi" /\ IsTrigger(last'.type, last'.msg)
                /\ state \in {"listening", "playback"}
          THEN LogRestartsAtTrigger
          ELSE LogGrowsByDelivery]_vars

\* C4: after a stop command handled in Replaying the state is Idle and no
\* timer of that session, emission or completion, is left to fire.
C4_StopCancelsReplay ==
    /\ (last.op = "s" /\ last.pre = "playback") => state = "listening"
    /\ session = "stopped" => timers = <<>>
    /\ session = "stopped" => last.op \notin {"emit", "complete"}

\* Witness of C4: the replay of a two-message take was stopped.
C4_Witness ==
    /\ last.op = "s"
    /\ last.pre = "playback"
    /\ session = "stopped"
    /\ timers = <<>>
    /\ Len(recordedMessages) = 2


\* The replay session started last is still running, uncancelled.
Live == session = "live"

\* The completion callback of an uncancelled session has just run.
JustCompleted == last.op = "complete" /\ session = "completed"

\* The emissions of the running session that have fired, delivered or not.
Attempted == Len(recordedMessages) - Cardinality(PendingEmits)

\* The last offset of the log.
LastOffset == recordedMessages[Len(recordedMessages)].timestamp

\* C5: an uncancelled replay session has exactly one completion timer, which
\* the play command sets to the last offset + 100 ms after its reading of
\* the timer clock and which expires after every emission timer; when it
\* fires every emission has fired, the state becomes Idle and nothing of
\* the session is left pending; and with timers firing and the timer clock
\* advancing, in the process as long as it runs, Replaying always leads to
\* a state other than Replaying.
C5_CompletionOnceAfterEmissions ==
    /\ [](Live =>
            /\ state = "playback"
            /\ Cardinality(PendingCompletes) = 1
            /\ \A t \in PendingCompletes :
                  /\ t.due <= Due(LoopNow, LastOffset + SettleMargin)
                  /\ t.id = playbackCompleteTimeout
                  /\ \A e \in PendingEmits : e.due < t.due)
    /\ [][(last'.op = "p" /\ Starts) =>
            /\ timers'[Len(timers')].cb = "complete"
            /\ timers'[Len(timers')].due
                  = Due(LoopNow, LastOffset + SettleMargin)]_vars
    /\ [](JustCompleted =>
            /\ last.pre = "playback"
            /\ state = "listening"
            /\ timers = <<>>
            /\ Attempted = Len(recordedMessages))
    /\ [][(Live /\ last'.op = "complete") =>
            /\ PendingEmits = {}
            /\ session' = "completed"]_vars
    /\ (state = "playback") ~> (state # "playback" \/ ~running)

\* Witness of C5: a one-message take (offset 0) replayed to completion.
C5_Witness ==
    /\ JustCompleted
    /\ Len(recordedMessages) = 1
    /\ recordedMessages[1].timestamp = 0
    /\ running

\* The reading of the timer clock from which a pending emission timer
\* counts the offset of its message: its expiry less the delay asked for.
EmitReading(t) == t.due - Max(t.recorded.timestamp, MinTimeout)

\* The emission timers count from readings of the timer clock that do not
\* decrease in creation order: the setTimeout calls of one play command.
StartsOfOneCommand(T) ==
    \A i, j \in DOMAIN T :
        (i <= j /\ T[i].cb = "emit" /\ T[j].cb = "emit")
            => EmitReading(T[i]) <= EmitReading(T[j])

\* C6: an uninterrupted replay delivers exactly the messages of the log, in
\* storage order, each once, with the recorded type and payload, message i
\* by a timer that expires the recorded offset of message i after the
\* reading of the timer clock at its setTimeout call inside the play
\* command; no message is delivered before its timer has expired on the
\* timer clock.
C6_ReplayDeliversLog ==
    /\ [](Live =>
            /\ {t.index : t \in PendingEmits} = (Attempted + 1)..Len(recordedMessages)
            /\ \A t, u \in PendingEmits : t.index = u.index => t = u
            /\ \A t \in PendingEmits :
                  /\ t.recorded = recordedMessages[t.index]
                  /\ EmitReading(t) <= LoopNow
            /\ StartsOfOneCommand(timers))
    /\ [][(last'.op = "p" /\ Starts) =>
            \A i \in DOMAIN recordedMessages :
                /\ timers'[i].cb = "emit"
                /\ timers'[i].index = i
                /\ timers'[i].recorded = recordedMessages[i]
                /\ EmitReading(timers'[i]) >= EmitReading(timers'[1])
                /\ timers'[i].due <= Due(LoopNow, recordedMessages[i].timestamp)]_vars
    /\ [](JustCompleted => PendingEmits = {})
    /\ [][(Live /\ last'.op = "emit") =>
            \E i \in DOMAIN timers :
                /\ timers' = RemoveAt(timers, i)
                /\ timers[i].cb = "emit"
                /\ timers[i].index = Attempted + 1
                /\ timers[i].due <= LoopNow
                /\ sink' = <<Events(recordedMessages)[timers[i].index]>>
                /\ recordedMessages' = recordedMessages]_vars
    /\ [][last'.op # "emit" => sink' = <<>>]_vars

\* Witness of C6: the second message of a two-message take with distinct
\* offsets and payloads has just been delivered, after the first.
C6_Witness ==
    /\ Live
    /\ last.op = "emit"
    /\ Len(recordedMessages) = 2
    /\ PendingEmits = {}
    /\ recordedMessages[1].timestamp < recordedMessages[2].timestamp
    /\ Events(recordedMessages)[1] # Events(recordedMessages)[2]
    /\ sink = <<Events(recordedMessages)[2]>>

\* C7: a play command handled with an empty log, or while Replaying, changes
\* neither the state nor the log nor the pending timers and their handles.
C7_PlayNoOp ==
    [][(last'.op = "p" /\ (state = "playback" \/ recordedMessages = <<>>)) =>
          /\ UNCHANGED <<state, recordedMessages, recordingStartTime, timers,
                          playbackTimeouts, playbackCompleteTimeout, session>>
          /\ sink' = <<>>]_vars

\* Witness of C7: a play command handled in the middle of a replay.
C7_Witness ==
    /\ last.op = "p"
    /\ last.pre = "playback"
    /\ state = "playback"
    /\ Len(recordedMessages) = 2
    /\ Cardinality(PendingEmits) = 1

\* C8 (as claimed): an export command handled with a non-empty log writes
\* exactly one file.
C8_ExportWritesOneFile ==
    (last.op = "e" /\ recordedMessages # <<>>) => fileWrites = 1

\* C8 (amended): an export command, in any state, changes neither the state
\* nor the log nor the timers; it writes no file if the log is empty;
\* otherwise it writes exactly one file when the encoding and the write go
\* through and none when one of them throws, the handler then changing
\* nothing at all; no other step writes a file.
C8_ExportFrame ==
    /\ [](\A written \in BOOLEAN :
            /\ keyExport(Cur, written).fileWrites =
                  IF recordedMessages # <<>> /\ written THEN 1 ELSE 0
            /\ [keyExport(Cur, written) EXCEPT !.fileWrites = 0] = Cur)
    /\ [][IF last'.op = "e"
          THEN /\ UNCHANGED <<state, recordedMessages, recordingStartTime, timers,
                              playbackTimeouts, playbackCompleteTimeout, session>>
               /\ sink' = <<>>
               /\ fileWrites' \in {0, 1}
               /\ recordedMessages = <<>> => fileWrites' = 0
          ELSE fileWrites' = 0]_vars

\* Witness of C8: an export that wrote a file in the middle of a replay.
C8_Witness ==
    /\ last.op = "e"
    /\ last.pre = "playback"
    /\ fileWrites = 1
    /\ Len(recordedMessages) = 2
    /\ Cardinality(PendingEmits) = 1

\* C9: a stop command changes nothing in Idle; a second stop right after a
\* first changes nothing more; a stop in Capturing leads to Idle and keeps
\* the log.
C9_IdempotentStop ==
    /\ state = "listening" => keyStop(Cur) = Cur
    /\ keyStop(keyStop(Cur)) = keyStop(Cur)
    /\ state = "recording" =>
          /\ keyStop(Cur).state = "listening"
          /\ keyStop(Cur).recordedMessages = recordedMessages
          /\ keyStop(Cur).timers = timers
    /\ (last.op = "s" /\ last.pre = "recording") =>
          (state = "listening" /\ recordedMessages # <<>>)

\* Witness of C9: a stop handled in Idle after a take was stopped.
C9_Witness ==
    /\ last.op = "s"
    /\ last.pre = "listening"
    /\ state = "listening"
    /\ Len(recordedMessages) = 2

NonDecreasing(log) ==
    \A i, j \in DOMAIN log : i <= j => log[i].timestamp <= log[j].timestamp

\* C10: the offsets of the log are non-decreasing in storage order and the
\* first stored event has offset 0.
C10_MonotonicFromZero ==
    /\ NonDecreasing(recordedMessages)
    /\ recordedMessages # <<>> => recordedMessages[1].timestamp = 0

\* The part of C10 the code keeps: the offsets of the log are non-decreasing
\* in storage order, none is negative, and none exceeds what Date.now() has
\* advanced since the capture start.
MonotonicKept ==
    /\ NonDecreasing(recordedMessages)
    /\ \A i \in DOMAIN recordedMessages : recordedMessages[i].timestamp >= 0
    /\ (state = "recording" /\ Now - recordingStartTime <= MaxOffset) =>
          \A i \in DOMAIN recordedMessages :
              recordedMessages[i].timestamp <= Now - recordingStartTime

\* C11 (as claimed): once output.send has thrown in an emission of a replay
\* session, the completion callback of that session still fires, with
\* every message of the log attempted, in the process as long as it runs.
C11_CompletionStillFires ==
    (Live /\ failed > 0) ~> (JustCompleted \/ ~running)

\* C11 (amended): when output.send throws in an emission, only that emission
\* is lost: the callback does to the recorder what it does when the send
\* succeeds, the step sends nothing and leaves state, log and handles as
\* they were, removes nothing but the timer that fired, and so every later
\* emission and the completion are still pending; a session that no stop
\* command and no capture trigger cancels still attempts every message of
\* the log once and, with timers firing, in the process as long as it runs,
\* still completes to Idle.
C11_SinkFailureIsolated ==
    /\ [](\A i \in DOMAIN timers :
            [fireTimer(Cur, i, FALSE) EXCEPT !.sendErrors = 0]
                = [fireTimer(Cur, i, TRUE) EXCEPT !.sink = <<>>])
    /\ [][last'.op = "throw" =>
            /\ UNCHANGED <<state, recordedMessages, recordingStartTime,
                           playbackTimeouts, playbackCompleteTimeout, session>>
            /\ fileWrites' = 0
            /\ sink' = <<>>
            /\ sendErrors' = 1
            /\ \E i \in DOMAIN timers :
                  /\ timers[i].cb = "emit"
                  /\ timers' = RemoveAt(timers, i)]_vars
    /\ [](Live =>
            /\ state = "playback"
            /\ Cardinality(PendingCompletes) = 1
            /\ {t.index : t \in PendingEmits} = (Attempted + 1)..Len(recordedMessages)
            /\ failed <= Attempted)
    /\ [][(Live /\ last'.op \in {"emit", "throw"}) =>
            \E i \in DOMAIN timers :
                /\ timers' = RemoveAt(timers, i)
                /\ timers[i].index = Attempted + 1
                /\ IF last'.op = "emit"
                   THEN /\ sink' = <<Events(recordedMessages)[timers[i].index]>>
                        /\ sendErrors' = 0
                        /\ failed' = failed
                   ELSE failed' = failed + 1]_vars
    /\ [](JustCompleted =>
            /\ Attempted = Len(recordedMessages)
            /\ state = "listening"
            /\ timers = <<>>)
    /\ (Live /\ failed > 0) ~>
          (JustCompleted \/ session \in {"preempted", "stopped"} \/ ~running)

\* Witness of C11: the first emission of a two-message take threw, the
\* second was delivered and the session completed.
C11_Witness ==
    /\ JustCompleted
    /\ Len(recordedMessages) = 2
    /\ failed = 1
    /\ recordedMessages[1].timestamp < recordedMessages[2].timestamp

(***************************************************************************)
(* The encoder's claims, checked in EncSpec.  What a take should encode to *)
(* is read off the take itself: an opener is a NoteOn with velocity > 0;   *)
(* it is closed by the next NoteOff or NoteOn (of either velocity) of the  *)
(* same note number, or by the end of the take.                            *)
(***************************************************************************)
\* Offset of message i counted from the first message, in milliseconds.
Offset(log, i) == log[i].timestamp - log[1].timestamp

Opens(log, i) ==
    /\ log[i].type = "noteon"
    /\ "velocity" \in DOMAIN log[i].msg
    /\ log[i].msg.velocity > 0

Openers(log) == {i \in DOMAIN log : Opens(log, i)}

\* Message j ends the note that message i opened.
Closes(log, j, i) ==
    /\ j > i
    /\ \/ log[j].type = "noteoff"
       \/ log[j].type = "noteon" /\ "velocity" \in DOMAIN log[j].msg
    /\ log[j].msg.note = log[i].msg.note

StillActive(log, i) == ~ \E j \in DOMAIN log : Closes(log, j, i)

\* Where the note opened by message i ends.
EndOf(log, i) ==
    IF StillActive(log, i) THEN Offset(log, Len(log))
    ELSE Offset(log, CHOOSE j \in DOMAIN log :
                        /\ Closes(log, j, i)
                        /\ \A k \in DOMAIN log : Closes(log, k, i) => j <= k)

\* The span the note opened by message i should have.
Span(log, i) ==
    [midi |-> log[i].msg.note,
     time |-> Offset(log, i),
     duration |-> Max(MinDuration, EndOf(log, i) - Offset(log, i))]

SpanOf(note) == [midi |-> note.midi, time |-> note.time, duration |-> note.duration]

\* An export has run and its track is at hand.
Encoded == midi # <<>>

\* C12: the encoder emits exactly one note for every NoteOn with velocity
\* > 0 of the take, each lasting at least 1 ms and spanning from its NoteOn
\* to the event that closes it; a note no event closes ends at last offset
\* - first offset; so no opened note is left without its closure.
C12_NoDanglingNotes ==
    Encoded =>
        LET log == recordedMessages
            notes == midi[1].notes
        IN /\ Len(notes) = Cardinality(Openers(log))
           /\ \A k \in DOMAIN notes : notes[k].duration >= MinDuration
           /\ \A i \in Openers(log) :
                 Cardinality({k \in DOMAIN notes : SpanOf(notes[k]) = Span(log, i)})
                    = Cardinality({j \in Openers(log) : Span(log, j) = Span(log, i)})
           /\ \A i \in Openers(log) :
                 StillActive(log, i) =>
                    \E k \in DOMAIN notes :
                        /\ notes[k].midi = log[i].msg.note
                        /\ notes[k].time = Offset(log, i)
                        /\ notes[k].time + notes[k].duration
                              = Max(Offset(log, Len(log)), notes[k].time + MinDuration)

\* Witness of C12: a take of three messages whose first offset is not 0,
\* with one note released and one still sounding at the end.
C12_Witness ==
    /\ Encoded
    /\ Len(recordedMessages) = MaxEncLog
    /\ recordedMessages[1].timestamp > 0
    /\ Len(midi[1].notes) = 2
    /\ \E i, j \in Openers(recordedMessages) :
          /\ StillActive(recordedMessages, i)
          /\ ~StillActive(recordedMessages, j)
          /\ Span(recordedMessages, i).duration > MinDuration

\* The note the NoteOn at i should be encoded to: its span, its velocity
\* and its channel (0 when the payload has none).
NoteOf(log, i) ==
    [midi |-> log[i].msg.note,
     time |-> Offset(log, i),
     duration |-> Max(MinDuration, EndOf(log, i) - Offset(log, i)),
     velocity |-> log[i].msg.velocity,
     channel |-> IF "channel" \in DOMAIN log[i].msg THEN log[i].msg.channel
                 ELSE DefaultChannel]

\* C13: every emitted note carries the start time, velocity and channel of
\* the NoteOn that opened it, whichever way it is closed: by a NoteOff or
\* velocity-0 NoteOn, by a NoteOn re-triggering the note number, or by the
\* end of the take.
C13_NotesCarryOpener ==
    Encoded =>
        LET log == recordedMessages
            notes == midi[1].notes
        IN \A i \in Openers(log) :
              Cardinality({k \in DOMAIN notes : notes[k] = NoteOf(log, i)})
                 = Cardinality({j \in Openers(log) : NoteOf(log, j) = NoteOf(log, i)})

\* C14: a NoteOn without velocity is encoded as a note of velocity 100, a
\* NoteOn or ControlChange without channel is encoded with channel 0, and
\* none of these events is missing from the track.
C14_EncoderDefaults ==
    Encoded =>
        LET log == recordedMessages
            notes == midi[1].notes
            ccs == midi[1].ccs
        IN /\ \A i \in DOMAIN log :
                 (log[i].type = "noteon" /\ "velocity" \notin DOMAIN log[i].msg) =>
                    \E k \in DOMAIN notes :
                        /\ notes[k].midi = log[i].msg.note
                        /\ notes[k].time = Offset(log, i)
                        /\ notes[k].velocity = DefaultVelocity
           /\ \A i \in DOMAIN log :
                 (log[i].type = "noteon" /\ "channel" \notin DOMAIN log[i].msg) =>
                    \E k \in DOMAIN notes :
                        /\ notes[k].midi = log[i].msg.note
                        /\ notes[k].time = Offset(log, i)
                        /\ notes[k].channel = DefaultChannel
           /\ \A i \in DOMAIN log :
                 (log[i].type = "cc" /\ "channel" \notin DOMAIN log[i].msg) =>
                    \E k \in DOMAIN ccs :
                        ccs[k] = [number |-> log[i].msg.controller,
                                  value |-> log[i].msg.value,
                                  time |-> Offset(log, i),
                                  channel |-> DefaultChannel]

\* The payloads the handlers are applied to in the claims about them.
Payloads == {inp.msg : inp \in EncInputs}

\* C15: in Capturing, a message of any of the sixteen kinds is appended at
\* the end of the log with offset = now - capture start, and nothing else
\* changes, the state staying Capturing; a step that delivers a message in
\* Capturing extends the log by exactly that message.
C15_CaptureAppendsAll ==
    /\ [](state = "recording" =>
            \A type \in EventTypes, msg \in Payloads :
                handleMIDIMessage(Cur, type, msg, Now, Now) =
                    [Cur EXCEPT !.recordedMessages =
                        Append(@, [type |-> type, msg |-> msg,
                                   timestamp |-> Now - recordingStartTime])])
    /\ [][(last'.op = "midi" /\ state = "recording") =>
            /\ state' = "recording"
            /\ recordedMessages' =
                  Append(recordedMessages,
                         [type |-> last'.type, msg |-> last'.msg,
                          timestamp |-> Now - recordingStartTime])
            /\ UNCHANGED <<recordingStartTime, timers, playbackTimeouts,
                           playbackCompleteTimeout>>
            /\ sink' = <<>>
            /\ fileWrites' = 0]_vars

\* Witness of C15: a message that is no capture trigger appended 2 ms into
\* a capture.
C15_Witness ==
    /\ last.op = "midi"
    /\ last.pre = "recording"
    /\ last.type = "cc"
    /\ ~IsTrigger(last.type, last.msg)
    /\ state = "recording"
    /\ Len(recordedMessages) = 2
    /\ recordedMessages[2] = [type |-> "cc", msg |-> last.msg, timestamp |-> 2]

\* C16: in Idle and in Capturing no emission timer and no completion timer
\* is pending.
C16_NoTimersOutsideReplay ==
    state \in {"listening", "recording"} => timers = <<>>

\* C17: a message that is not a capture trigger, handled in Idle or in
\* Replaying, is discarded: state, log, capture start, pending timers and
\* their handles are as before.
C17_NonTriggerDiscarded ==
    /\ [](state \in {"listening", "playback"} =>
            \A type \in EventTypes, msg \in Payloads :
                ~IsTrigger(type, msg) =>
                    handleMIDIMessage(Cur, type, msg, Now, Now) = Cur)
    /\ [][(/\ last'.op = "midi"
           /\ ~IsTrigger(last'.type, last'.msg)
           /\ state \in {"listening", "playback"}) =>
            /\ UNCHANGED <<state, recordedMessages, recordingStartTime, timers,
                           playbackTimeouts, playbackCompleteTimeout, session>>
            /\ sink' = <<>>
            /\ fileWrites' = 0]_vars

\* Witness of C17: a non-sustain controller handled in the middle of a
\* replay.
C17_Witness ==
    /\ last.op = "midi"
    /\ last.pre = "playback"
    /\ last.type = "cc"
    /\ ~IsTrigger(last.type, last.msg)
    /\ state = "playback"
    /\ Len(recordedMessages) = 2
    /\ Cardinality(PendingEmits) = 1

\* C18: only a delivered message changes the log: the stop, play and export
\* commands, an emission, the completion and the passage of time leave it
\* as it is, in whatever state they are handled.
C18_LogOnlyByCapture ==
    /\ [](/\ keyStop(Cur).recordedMessages = recordedMessages
          /\ \A J \in SUBSET (2..(Len(recordedMessages) + 1)) :
                keyPlay(Cur, LoopNow, J).recordedMessages = recordedMessages
          /\ \A written \in BOOLEAN :
                keyExport(Cur, written).recordedMessages = recordedMessages
          /\ \A i \in DOMAIN timers, accepts \in BOOLEAN :
                fireTimer(Cur, i, accepts).recordedMessages = recordedMessages)
    /\ [][last'.op # "midi" => recordedMessages' = recordedMessages]_vars

\* Witness of C18: a two-message take that has been replayed to completion
\* is still the log.
C18_Witness ==
    /\ JustCompleted
    /\ Len(recordedMessages) = 2
    /\ state = "listening"

\* C19: in Replaying the log is not empty and exactly one completion timer
\* is pending; in Capturing the log is not empty.
C19_StateImpliesLog ==
    /\ state = "playback" =>
          /\ Len(recordedMessages) > 0
          /\ Cardinality(PendingCompletes) = 1
    /\ state = "recording" => Len(recordedMessages) > 0

\* Witness of C19: a replay started by a play command handled in Capturing.
C19_Witness ==
    /\ state = "playback"
    /\ last.op = "p"
    /\ last.pre = "recording"
    /\ Len(recordedMessages) = 2
    /\ Cardinality(PendingCompletes) = 1

\* The handles of the pending timers.
PendingHandles == {t.id : t \in Range(timers)}

\* C20: the pending timers all belong to the replay started last: a play
\* command that starts a replay clears every timer that was pending and
\* leaves only the timers it creates (one per message, in storage order,
\* and one completion), no other step creates a timer, every pending timer
\* is tracked by its handle, and at most one completion timer is pending.
C20_OneSessionPending ==
    /\ [](/\ Cardinality(PendingCompletes) <= 1
          /\ Cardinality(PendingHandles) = Len(timers)
          /\ \A t \in PendingEmits : t.id \in Range(playbackTimeouts)
          /\ \A t \in PendingCompletes : t.id = playbackCompleteTimeout)
    /\ [][IF last'.op = "p" /\ Starts
          THEN /\ cleared' = Len(timers)
               /\ Len(timers') = Len(recordedMessages) + 1
               /\ \A i \in DOMAIN recordedMessages :
                     /\ timers'[i].cb = "emit"
                     /\ timers'[i].index = i
               /\ timers'[Len(timers')].cb = "complete"
               /\ PendingHandles \cap {timers'[i].id : i \in DOMAIN timers'}
                     \subseteq Range(playbackTimeouts) \cup {playbackCompleteTimeout}
               /\ {timers'[i].id : i \in DOMAIN timers'}
                     = Range(playbackTimeouts') \cup {playbackCompleteTimeout'}
          ELSE /\ Len(timers') <= Len(timers)
               /\ {timers'[i].id : i \in DOMAIN timers'} \subseteq PendingHandles]_vars

\* Witness of C20: a replay of a two-message take started from a capture
\* that had preempted a replay: the play command cleared the timers of that
\* earlier session, which were still pending, and its own three timers are
\* pending and tracked.
C20_Witness ==
    /\ last.op = "p"
    /\ last.pre = "recording"
    /\ session = "live"
    /\ cleared >= 2
    /\ Len(recordedMessages) = 2
    /\ Len(timers) = 3
    /\ Range(playbackTimeouts) \cup {playbackCompleteTimeout} = PendingHandles

\* The emission timers among T: which message and its copy, the offset
\* that is its delay included.
EmissionsOf(T) ==
    {[index |-> t.index, recorded |-> t.recorded]
        : t \in {u \in Range(T) : u.cb = "emit"}}

\* C21: a play command handled in Capturing is not rejected: without any
\* stop command the state becomes Replaying, the log stays as captured so
\* far, and exactly one emission per captured message (expiring no later
\* than its offset after the command) and one completion are scheduled;
\* from then on, as in any Replaying state, a
\* message that is not a capture trigger is not appended.
C21_PlayEndsCapture ==
    /\ [][(last'.op = "p" /\ state = "recording") =>
            /\ state' = "playback"
            /\ session' = "live"
            /\ recordedMessages' = recordedMessages
            /\ recordedMessages # <<>>
            /\ Len(timers') = Len(recordedMessages) + 1
            /\ EmissionsOf(timers') =
                  {[index |-> i, recorded |-> recordedMessages[i]]
                      : i \in DOMAIN recordedMessages}
            /\ \A i \in DOMAIN timers' :
                  timers'[i].cb = "emit" =>
                      timers'[i].due <= Due(LoopNow, timers'[i].recorded.timestamp)
            /\ Cardinality({i \in DOMAIN timers' : timers'[i].cb = "complete"}) = 1]_vars
    /\ []((last.op = "p" /\ last.pre = "recording") =>
            /\ state = "playback"
            /\ \A type \in EventTypes, msg \in Payloads :
                  ~IsTrigger(type, msg) =>
                      handleMIDIMessage(Cur, type, msg, Now, Now).recordedMessages
                          = recordedMessages)
    /\ [][(/\ last'.op = "midi"
           /\ ~IsTrigger(last'.type, last'.msg)
           /\ state = "playback") =>
            /\ recordedMessages' = recordedMessages
            /\ state' = "playback"]_vars

\* Witness of C21: a play command handled 2 ms into a capture of two
\* messages; the replay is scheduled, nothing has been emitted yet, and a
\* clock message delivered now would not be appended.
C21_Witness ==
    /\ last.op = "p"
    /\ last.pre = "recording"
    /\ state = "playback"
    /\ sink = <<>>
    /\ Len(recordedMessages) = 2
    /\ recordedMessages[2].timestamp = 2
    /\ Cardinality(PendingEmits) = 2
    /\ handleMIDIMessage(Cur, "clock", <<>>, Now, Now) = Cur

====
